---- MODULE Spec2Model ----
(***************************************************************************)
(* State-based CRDTs of crdt.h (VersionVec, GCounter, PNCounter,           *)
(* LWWRegister, MVRegister) replicated over the simulated networks of      *)
(* main.cpp (P2PNetwork, StarNetwork).                                     *)
(*                                                                         *)
(* A replica object is identified by its name.  A network run holds        *)
(* replicas of one CRDT type (`kind`) in one topology (`net`).  Counter    *)
(* entries are kept far below 2^31 by the guards of the update actions, so *)
(* no fixed-width arithmetic of the program wraps in the runs explored.    *)
(***************************************************************************)
EXTENDS Integers, Sequences, FiniteSets, TLC

\* ------------------------------------------------------------------ bounds
\* Largest |delta| passed to GCounter::increment / PNCounter::increment.
MaxDelta == 2
\* Cap on the sum of the deltas passed to GCounter::increment in one run.
MaxTotal == 3
\* Cap on the sum of the |delta| passed to PNCounter::increment in one run.
MaxPNTotal == 2
\* Cap on the number of LWWRegister::assign / clear calls in one run.
MaxWrites == 2
\* std::hash<std::string> yields a value in 0..MaxHash.
MaxHash == 2
\* Cap on the number of MVRegister::assign calls in one run.
MaxAssigns == 3
\* Largest entry of a version vector drawn as an input of merge.
MaxEntry == 1
\* unsigned int holds 0..UIntRange-1 and uint64_t holds 0..U64Range-1: the 2^32
\* and 2^64 of the build, scaled down to the integers the model checker has.
UIntRange == 8
U64Range == 32
\* Largest logical clock of an LWWRegister payload drawn as an input of merge.
MaxClock == 1
\* Largest number of nodes of an MVRegister payload drawn as an input of merge.
MaxNodes == 1

\* ------------------------------------------------------- replica universe
\* The replica objects of the simulations, in the order they are add()ed.
ClientOrder == <<"A", "B", "C">>
\* The star simulation's clients and its server.
StarClientOrder == <<"A", "B">>
ServerName == "SERVER"
Range(seq) == {seq[n] : n \in 1..Len(seq)}
\* The replica objects a simulation constructs for topology n.
Objects(n) ==
    IF n = "Star" THEN Range(StarClientOrder) \cup {ServerName} ELSE Range(ClientOrder)
NULL == "nullptr"

VARIABLES
    kind,          \* CRDT type the network is instantiated with
    net,           \* "P2P" (P2PNetwork), "Star" (StarNetwork) or "None" (replicas
                   \* merged directly, outside any network)
    _replicas,     \* std::vector<CRDT *>: sequence, slot i is _replicas[i + 1]
    _offline_set,  \* set of <<slot, replica>> pairs
    _payload,      \* replica name -> its CRDT payload (_payload of each replica object)
    _now,          \* replica name -> LWWRegister::_now (0 for the other types)
    hashedReplicaName,  \* std::hash<std::string> on the replica names
    aborted,       \* an assert() of main.cpp has failed
    lastOp,        \* history: the name of the operation executed last
    offline_update,\* history: a local update was applied to an offline replica
    latest,        \* history: the LWW writes carrying the greatest timestamp so far
    assigns,       \* history: number of MVRegister::assign calls so far
    applied,       \* history: replica name -> the deltas passed to its increment,
                   \* as [pos |-> sum of the deltas >= 0, neg |-> sum of the |delta| < 0]
    seen,          \* history: replica name -> for each replica, how many of its
                   \* MVRegister::assign calls this replica has made or merged
    written,       \* history: replica name -> its latest MVRegister::assign, as
                   \* [done, value, at |-> seen[r] right after the call]
                   \* (seen and written are recorded in the runs whose initial
                   \* state gives them the replicas as domain, and stay <<>> in
                   \* the others)
    returned       \* what the last _2PSet remove / removeMany call returned
                   \* (TRUE before any such call)

vars == <<kind, net, _replicas, _offline_set, _payload, _now, hashedReplicaName,
          aborted, lastOp, offline_update, latest, assigns, applied, seen, written,
          returned>>

\* ------------------------------------------------------------- VersionVec
\* VersionVec::Repr: a map whose key set is explicit (a key may map to 0).
EmptyVec == [k \in {} |-> 0]

RECURSIVE SumEntries(_, _)
SumEntries(v, keys) ==
    IF keys = {} THEN 0
    ELSE LET k == CHOOSE x \in keys : TRUE
         IN  v[k] + SumEntries(v, keys \ {k})

\* VersionVec::max: the sum of all entries.
\* Variant: the greatest entry instead of the sum of the entries.
max_greatestEntry(v) ==
    IF DOMAIN v = {} THEN 0
    ELSE CHOOSE m \in {v[k] : k \in DOMAIN v} : \A k \in DOMAIN v : v[k] <= m

\* The sum is accumulated in a uint64_t.
max(v) == SumEntries(v, DOMAIN v) % U64Range

localVersionForReplica(v, replica_name) ==
    IF replica_name \in DOMAIN v THEN v[replica_name] ELSE 0

\* data[replica_name] += delta (operator[] inserts a missing key with 0).
\* Variant: the entry is assigned delta instead of being advanced by it.
increment_assign(v, replica_name, delta) ==
    [k \in DOMAIN v \cup {replica_name} |-> IF k = replica_name THEN delta ELSE v[k]]

increment(v, replica_name, delta) ==
    [k \in DOMAIN v \cup {replica_name} |->
        IF k = replica_name
        THEN (localVersionForReplica(v, replica_name) + delta) % U64Range
        ELSE v[k]]

\* std::max
\* Variant: the lesser of the two versions.
Max2_least(a, b) == IF a >= b THEN b ELSE a

\* Variant: the two versions are added up.
Max2_sum(a, b) == a + b

Max2(a, b) == IF a >= b THEN a ELSE b

\* The vector after mergeVersionForReplica(replica_name, other_version).
\* Variant: the other version overwrites the entry instead of the maximum.
mergeVersionForReplica_overwrite(v, replica_name, other_version) ==
    IF other_version = 0 THEN v
    ELSE [k \in DOMAIN v \cup {replica_name} |->
            IF k = replica_name THEN other_version ELSE v[k]]

mergeVersionForReplica(v, replica_name, other_version) ==
    IF other_version = 0 THEN v
    ELSE [k \in DOMAIN v \cup {replica_name} |->
            IF k = replica_name
            THEN Max2(localVersionForReplica(v, replica_name), other_version)
            ELSE v[k]]

RECURSIVE MergeNames(_, _, _)
MergeNames(v, other, replica_names) ==
    IF replica_names = {} THEN v
    ELSE LET n == CHOOSE x \in replica_names : TRUE
         IN  MergeNames(mergeVersionForReplica(v, n, localVersionForReplica(other, n)),
                        other, replica_names \ {n})

\* Variant: only the keys this vector already has are merged.
merge_ownKeys(v, other) == MergeNames(v, other, DOMAIN v)

\* VersionVec::merge: every key of either vector is merged once.
merge(v, other) == MergeNames(v, other, DOMAIN v \cup DOMAIN other)

\* VersionVec::operator<=
VecLe(v, other) ==
    \A n \in DOMAIN v \cup DOMAIN other :
        localVersionForReplica(v, n) <= localVersionForReplica(other, n)

\* VersionVec::operator< (dominatedBy)
VecLt(v, other) ==
    /\ \A n \in DOMAIN v \cup DOMAIN other :
          ~(localVersionForReplica(v, n) > localVersionForReplica(other, n))
    /\ \E n \in DOMAIN v \cup DOMAIN other :
          localVersionForReplica(v, n) < localVersionForReplica(other, n)

\* VersionVec::operator==: data == other.data, the same keys with the same
\* versions (a key mapped to 0 is a key).
VersionVec_eq(v, other) == v = other

\* std::hash<VersionVec>: an order-independent combination of the (key,
\* version) pairs whose version is not 0, so a function of the set of these
\* pairs, which stands for the hash value here.
VersionVec_hash(v) == {<<k, v[k]>> : k \in {n \in DOMAIN v : v[n] # 0}}

\* Variant: a vector also counts as dominated by an equal one.
dominatedBy_orEqual(v, other) == VecLe(v, other)

dominatedBy(v, other) == VecLt(v, other)

\* --------------------------------------------------------------- GCounter
\* Variant: query() returns the uint64_t of max() as it is.
GCounter_query_wide(p) == max(p)

\* GCounter::query: `unsigned int query() const { return _payload.max(); }`,
\* the uint64_t sum converted to unsigned int.
GCounter_query(p) == max(p) % UIntRange
GCounter_increment(p, name, delta) == increment(p, name, delta)
GCounter_merge(p, other) == merge(p, other)

\* ------------------------------------------ GCounter of crdt.cpp (map-backed)
\* GCounter::Payload of crdt.cpp: a map from replica names to unsigned int.
CppGCounter_localValueForReplica(p, replica_name) ==
    IF replica_name \in DOMAIN p THEN p[replica_name] ELSE 0

CppGCounter_query(p) == SumEntries(p, DOMAIN p)

\* operator<=: false at the first key that fails the pointwise check, and
\* false again after the loop.
CppGCounter_le(p, other) ==
    IF \E n \in DOMAIN p \cup DOMAIN other :
           ~(CppGCounter_localValueForReplica(p, n)
                 <= CppGCounter_localValueForReplica(other, n))
    THEN FALSE
    ELSE FALSE

CppGCounter_increment(p, replica_name, delta) ==
    [k \in DOMAIN p \cup {replica_name} |->
        IF k = replica_name THEN CppGCounter_localValueForReplica(p, k) + delta
        ELSE p[k]]

\* merge: _payload[name] (inserted when missing) becomes the greater value.
CppGCounter_merge(p, other) ==
    [k \in DOMAIN p \cup DOMAIN other |->
        Max2(CppGCounter_localValueForReplica(p, k),
             CppGCounter_localValueForReplica(other, k))]

\* -------------------------------------------------------------- PNCounter
PNCounter_init == [positive |-> EmptyVec, negative |-> EmptyVec]
PNCounter_query(p) == max(p.positive) - max(p.negative)
PNCounter_increment(p, name, delta) ==
    IF delta >= 0
    THEN [p EXCEPT !.positive = increment(p.positive, name, delta)]
    ELSE [p EXCEPT !.negative = increment(p.negative, name, 0 - delta)]
\* Variant: the negative vector is not merged.
PNCounter_merge_positiveOnly(p, other) ==
    [positive |-> merge(p.positive, other.positive), negative |-> p.negative]

PNCounter_merge(p, other) ==
    [positive |-> merge(p.positive, other.positive),
     negative |-> merge(p.negative, other.negative)]

\* ------------------------------------------------------------ LWWRegister
\* T{}: the value a default-constructed payload holds.
DefaultValue == ""
\* The values the simulations assign.
Values == {"x", "y"}

\* LWWRegister::Payload::Payload()
LWW_init == [value |-> DefaultValue, timestamp |-> <<0, 0>>, empty |-> TRUE]

\* Variant: the timestamp carries the clock alone, the replica hash is left 0.
Payload_assign_hashless(p, value, now, hash) ==
    [value |-> IF value # NULL THEN value ELSE p.value,
     timestamp |-> <<now, 0>>,
     empty |-> (value = NULL)]

\* LWWRegister::Payload::assign; value = NULL stands for the nullptr of clear().
Payload_assign(p, value, now, hash) ==
    [value |-> IF value # NULL THEN value ELSE p.value,
     timestamp |-> <<now, hash>>,
     empty |-> (value = NULL)]

\* Variant: the clocks alone are compared, the replica hash is ignored.
TimestampLe_clockOnly(a, b) == a[1] <= b[1]

\* std::pair's operator<=: lexicographic.
TimestampLe(a, b) == a[1] < b[1] \/ (a[1] = b[1] /\ a[2] <= b[2])

\* LWWRegister::Payload::operator<=
Payload_le(p, other) == TimestampLe(p.timestamp, other.timestamp)

\* Variant: value and timestamp are adopted, the empty flag is kept.
LWW_merge_keepFlag(p, other) ==
    IF Payload_le(p, other) THEN [other EXCEPT !.empty = p.empty] ELSE p

\* LWWRegister::Payload::merge
LWW_merge(p, other) == IF Payload_le(p, other) THEN other ELSE p

\* LWWRegister::query: NULL stands for std::nullopt.
LWW_query(p) == IF p.empty THEN NULL ELSE p.value

\* ------------------------------------------------------------- MVRegister
\* MVRegisterSetNode constructors.
EmptyNode(version_vec) ==
    [value |-> DefaultValue, empty |-> TRUE, version_vector |-> version_vec]
ValueNode(value, version_vec) ==
    [value |-> value, empty |-> FALSE, version_vector |-> version_vec]

RECURSIVE MergeAll(_, _)
MergeAll(acc, nodes) ==
    IF nodes = {} THEN acc
    ELSE LET i == CHOOSE x \in nodes : TRUE
         IN  MergeAll(merge(acc, i.version_vector), nodes \ {i})

\* MVRegister::Payload::bumpVersionVector on the node set `set`.
bumpVersionVector(set, replica_name) ==
    increment(MergeAll(EmptyVec, set), replica_name, 1)

\* Variant: the vector is bumped before _set is cleared.
MV_assign_bumpFirst(set, value, replica_name) ==
    LET version_vec == bumpVersionVector(set, replica_name)
    IN  IF value = {} THEN {EmptyNode(version_vec)}
        ELSE {ValueNode(i, version_vec) : i \in value}

\* MVRegister::Payload::assign: _set is cleared before the vector is bumped.
MV_assign(set, value, replica_name) ==
    LET cleared == {}
        version_vec == bumpVersionVector(cleared, replica_name)
    IN  IF value = {} THEN {EmptyNode(version_vec)}
        ELSE {ValueNode(i, version_vec) : i \in value}

\* MVRegister::Payload::query
MV_query(set) == {node.value : node \in {n \in set : ~n.empty}}

\* Variant: only the receiver's loop inserts nodes.
MV_merge_receiverOnly(set, other) ==
    {i \in set : \E j \in other : ~dominatedBy(i.version_vector, j.version_vector)}

\* MVRegister::Payload::merge: the nested loops insert i (j) whenever some
\* pair (i, j) finds it not dominated by the other node of the pair.
MV_merge(set, other) ==
    {i \in set : \E j \in other : ~dominatedBy(i.version_vector, j.version_vector)}
    \cup
    {j \in other : \E i \in set : ~dominatedBy(j.version_vector, i.version_vector)}

\* ----------------------------------------------------------------- _2PSet
\* The class _2PSet<T> is used by main.cpp and defined in no source file here;
\* its operations follow section 4.6 of the specification.  A payload is the
\* pair of the added set A and the removed set R.
_2PSet_init == [A |-> {}, R |-> {}]

\* query(): A \ R
_2PSet_query(p) == p.A \ p.R

\* add(x): nothing when x is in R, else x joins A.
_2PSet_add(p, x) == IF x \in p.R THEN p ELSE [p EXCEPT !.A = @ \cup {x}]

\* addMany(xs): add of every element.
_2PSet_addMany(p, xs) == [p EXCEPT !.A = @ \cup (xs \ p.R)]

\* remove(x): the payload afterwards and the value returned.
_2PSet_remove(p, x) ==
    IF x \notin _2PSet_query(p) THEN [payload |-> p, returned |-> FALSE]
    ELSE [payload |-> [p EXCEPT !.R = @ \cup {x}], returned |-> TRUE]

\* Variant: the elements present are removed although the batch fails.
_2PSet_removeMany_partial(p, xs) ==
    [payload |-> [p EXCEPT !.R = @ \cup (xs \cap _2PSet_query(p))],
     returned |-> xs \subseteq _2PSet_query(p)]

\* removeMany(xs): all or nothing.
_2PSet_removeMany(p, xs) ==
    IF xs \subseteq _2PSet_query(p)
    THEN [payload |-> [p EXCEPT !.R = @ \cup xs], returned |-> TRUE]
    ELSE [payload |-> p, returned |-> FALSE]

\* Variant: the removed set of the other payload replaces this one's.
_2PSet_merge_adoptRemoved(p, other) == [A |-> p.A \cup other.A, R |-> other.R]

\* merge(other): union of the added sets and of the removed sets.
_2PSet_merge(p, other) == [A |-> p.A \cup other.A, R |-> p.R \cup other.R]

\* ------------------------------------------------- the CRDT type parameter
Kinds == {"GCounter", "PNCounter", "LWWRegister", "MVRegister"}

\* The payload of a freshly constructed replica.
InitPayload(k) ==
    CASE k = "GCounter" -> EmptyVec
      [] k = "PNCounter" -> PNCounter_init
      [] k = "LWWRegister" -> LWW_init
      [] k = "MVRegister" -> {}
      [] k = "_2PSet" -> _2PSet_init
      [] k = "CppGCounter" -> EmptyVec

\* CRDT::query()
Query(k, p) ==
    CASE k = "GCounter" -> GCounter_query(p)
      [] k = "PNCounter" -> PNCounter_query(p)
      [] k = "LWWRegister" -> LWW_query(p)
      [] k = "MVRegister" -> MV_query(p)
      [] k = "_2PSet" -> _2PSet_query(p)
      [] k = "CppGCounter" -> CppGCounter_query(p)

\* CRDT::merge(other): the receiver's payload afterwards.
Merge(k, p, other) ==
    CASE k = "GCounter" -> GCounter_merge(p, other)
      [] k = "PNCounter" -> PNCounter_merge(p, other)
      [] k = "LWWRegister" -> LWW_merge(p, other)
      [] k = "MVRegister" -> MV_merge(p, other)
      [] k = "_2PSet" -> _2PSet_merge(p, other)
      [] k = "CppGCounter" -> CppGCounter_merge(p, other)

\* ------------------------------------------------------------- networks
\* Slot i of the vector `reps` (slots count from 0 as in the program).
At(reps, i) == reps[i + 1]
SetAt(reps, i, x) == [reps EXCEPT ![i + 1] = x]
Slots == 0..(Len(_replicas) - 1)
Op(name, slot, replica) == name
IsOffline(r) == \E e \in _offline_set : e[2] = r

\* P2PNetwork::add / StarNetwork::add: the vector afterwards.
P2P_add(reps, crdt) == Append(reps, crdt)
Star_add(reps, crdt) ==
    Append(IF reps = <<>> THEN <<NULL>> ELSE reps, crdt)

\* StarNetwork::setServerReplica: the vector afterwards.
setServerReplica(reps, crdt) ==
    IF reps = <<>> THEN <<crdt>> ELSE SetAt(reps, 0, crdt)

\* The j-loop of P2PNetwork::broadcast(i), from j on; pl maps names to payloads.
RECURSIVE BroadcastLoop(_, _, _, _, _)
BroadcastLoop(k, reps, pl, i, j) ==
    IF j >= Len(reps) THEN pl
    ELSE LET other == At(reps, j)
             replica == At(reps, i)
         IN  BroadcastLoop(k, reps,
                 IF j # i /\ other # NULL
                 THEN [pl EXCEPT ![other] = Merge(k, pl[other], pl[replica])]
                 ELSE pl,
                 i, j + 1)

\* Variant: the payload is also merged into the replicas of the offline set.
broadcast_toOffline(k, reps, pl, i) ==
    IF At(reps, i) = NULL THEN pl
    ELSE LET sent == BroadcastLoop(k, reps, pl, i, 0)
         IN  [r \in DOMAIN pl |->
                 IF IsOffline(r) /\ r # At(reps, i)
                 THEN Merge(k, sent[r], pl[At(reps, i)])
                 ELSE sent[r]]

\* P2PNetwork::broadcast(i): the payloads afterwards.
broadcast(k, reps, pl, i) ==
    IF At(reps, i) = NULL THEN pl ELSE BroadcastLoop(k, reps, pl, i, 0)

\* The i-loop of P2PNetwork::broadcastAll, from i on.
RECURSIVE BroadcastAllLoop(_, _, _, _)
BroadcastAllLoop(k, reps, pl, i) ==
    IF i >= Len(reps) THEN pl
    ELSE BroadcastAllLoop(k, reps, broadcast(k, reps, pl, i), i + 1)

\* Variant: the loop starts at slot 1, so slot 0 never broadcasts.
broadcastAll_skipFirst(k, reps, pl) == BroadcastAllLoop(k, reps, pl, 1)

broadcastAll(k, reps, pl) == BroadcastAllLoop(k, reps, pl, 0)

\* Variant: the server does not merge the replica's payload.
syncWithServer_oneWay(k, reps, st, i) ==
    IF st.aborted \/ i = 0 THEN st
    ELSE LET server == At(reps, 0)
             replica == At(reps, i)
         IN  IF replica = NULL \/ server = NULL THEN st
             ELSE LET payload_from_server == st.payload[server]
                      pl1 == [st.payload EXCEPT
                                 ![replica] = Merge(k, @, payload_from_server)]
                  IN  [payload |-> pl1,
                       aborted |-> Query(k, pl1[replica]) # Query(k, pl1[server])]

\* Variant: an unreachable server fails the call.
syncWithServer_failUnreachable(k, reps, st, i) ==
    IF st.aborted \/ i = 0 THEN st
    ELSE LET server == At(reps, 0)
             replica == At(reps, i)
         IN  IF replica = NULL THEN st
             ELSE IF server = NULL THEN [st EXCEPT !.aborted = TRUE]
             ELSE LET local_payload == st.payload[replica]
                      payload_from_server == st.payload[server]
                      pl1 == [st.payload EXCEPT
                                 ![replica] = Merge(k, @, payload_from_server)]
                      pl2 == [pl1 EXCEPT ![server] = Merge(k, @, local_payload)]
                  IN  [payload |-> pl2,
                       aborted |-> Query(k, pl2[replica]) # Query(k, pl2[server])]

\* StarNetwork::syncWithServer(i) on st = [payload, aborted]: the two merges,
\* then the assertion that client and server query alike.
syncWithServer(k, reps, st, i) ==
    IF st.aborted \/ i = 0 THEN st
    ELSE LET server == At(reps, 0)
             replica == At(reps, i)
         IN  IF replica = NULL \/ server = NULL THEN st
             ELSE LET local_payload == st.payload[replica]
                      payload_from_server == st.payload[server]
                      pl1 == [st.payload EXCEPT
                                 ![replica] = Merge(k, @, payload_from_server)]
                      pl2 == [pl1 EXCEPT ![server] = Merge(k, @, local_payload)]
                  IN  [payload |-> pl2,
                       aborted |-> Query(k, pl2[replica]) # Query(k, pl2[server])]

\* The loop of StarNetwork::syncAllReplicasToServer, from i on.
RECURSIVE SyncAllLoop(_, _, _, _)
SyncAllLoop(k, reps, st, i) ==
    IF i >= Len(reps) THEN st
    ELSE SyncAllLoop(k, reps, syncWithServer(k, reps, st, i), i + 1)

\* StarNetwork::syncAllReplicasToServer
\* Variant: the loop starts at slot 2, so the first client never syncs.
syncAllReplicasToServer_fromSecond(k, reps, st) == SyncAllLoop(k, reps, st, 2)

syncAllReplicasToServer(k, reps, st) == SyncAllLoop(k, reps, st, 1)

\* countPartitions(): distinct query() values over the bound slots and the
\* offline collection.
\* Variant: the offline collection is not visited.
countPartitions_onlineOnly ==
    Cardinality(
        {Query(kind, _payload[At(_replicas, i)]) :
            i \in {s \in Slots : At(_replicas, s) # NULL}})

countPartitions ==
    Cardinality(
        {Query(kind, _payload[At(_replicas, i)]) :
            i \in {s \in Slots : At(_replicas, s) # NULL}}
        \cup {Query(kind, _payload[e[2]]) : e \in _offline_set})

\* ---------------------------------------------------------------- actions
Frame == UNCHANGED <<kind, net, hashedReplicaName, returned>>
\* The run records the histories seen and written.
Tracked == DOMAIN seen # {}

Add ==
    /\ ~aborted
    /\ net = "P2P"
    /\ Len(_replicas) < Len(ClientOrder)
    /\ LET crdt == ClientOrder[Len(_replicas) + 1]
       IN  /\ _replicas' = P2P_add(_replicas, crdt)
           /\ lastOp' = Op("add", Len(_replicas), crdt)
    /\ Frame
    /\ UNCHANGED <<_offline_set, _payload, _now, aborted, offline_update, latest, assigns, applied,
                   seen, written>>

StarAdd ==
    /\ ~aborted
    /\ net = "Star"
    /\ LET added == IF _replicas = <<>> THEN 0 ELSE Len(_replicas) - 1
       IN  /\ added < Len(StarClientOrder)
           /\ _replicas' = Star_add(_replicas, StarClientOrder[added + 1])
           /\ lastOp' = Op("add", added + 1, StarClientOrder[added + 1])
    /\ Frame
    /\ UNCHANGED <<_offline_set, _payload, _now, aborted, offline_update, latest, assigns, applied,
                   seen, written>>

SetServerReplica ==
    /\ ~aborted
    /\ net = "Star"
    /\ _replicas' = setServerReplica(_replicas, ServerName)
    /\ lastOp' = Op("setServerReplica", 0, ServerName)
    /\ Frame
    /\ UNCHANGED <<_offline_set, _payload, _now, aborted, offline_update, latest, assigns, applied,
                   seen, written>>

\* P2PNetwork::disconnect / StarNetwork::disconnect
Disconnect(i) ==
    /\ ~aborted
    /\ i \in Slots
    /\ LET replica == At(_replicas, i)
       IN  IF replica # NULL
           THEN /\ _replicas' = SetAt(_replicas, i, NULL)
                /\ _offline_set' = _offline_set \cup {<<i, replica>>}
           ELSE UNCHANGED <<_replicas, _offline_set>>
    /\ lastOp' = Op("disconnect", i, NULL)
    /\ Frame
    /\ UNCHANGED <<_payload, _now, aborted, offline_update, latest, assigns, applied,
                   seen, written>>

\* P2PNetwork::reconnect / StarNetwork::reconnect: the first entry of the
\* offline collection found for slot i is rebound (any one, the collection
\* being unordered); the assertion fails when the slot is bound.
Reconnect(i) ==
    /\ ~aborted
    /\ i \in Slots
    /\ IF \E e \in _offline_set : e[1] = i
       THEN \E it \in {e \in _offline_set : e[1] = i} :
               IF At(_replicas, i) # NULL
               THEN /\ aborted' = TRUE
                    /\ UNCHANGED <<_replicas, _offline_set>>
               ELSE /\ _replicas' = SetAt(_replicas, i, it[2])
                    /\ _offline_set' = _offline_set \ {it}
                    /\ UNCHANGED aborted
       ELSE UNCHANGED <<_replicas, _offline_set, aborted>>
    /\ lastOp' = Op("reconnect", i, NULL)
    /\ Frame
    /\ UNCHANGED <<_payload, _now, offline_update, latest, assigns, applied,
                   seen, written>>

Broadcast(i) ==
    /\ ~aborted
    /\ net = "P2P"
    /\ i \in Slots
    /\ _payload' = broadcast(kind, _replicas, _payload, i)
    /\ seen' = IF Tracked THEN broadcast("GCounter", _replicas, seen, i) ELSE seen
    /\ lastOp' = Op("broadcast", i, NULL)
    /\ Frame
    /\ UNCHANGED <<_replicas, _offline_set, _now, aborted, offline_update, latest, assigns,
                   applied, written>>

BroadcastAll ==
    /\ ~aborted
    /\ net = "P2P"
    /\ _payload' = broadcastAll(kind, _replicas, _payload)
    /\ seen' = IF Tracked THEN broadcastAll("GCounter", _replicas, seen) ELSE seen
    /\ lastOp' = Op("broadcastAll", 0, NULL)
    /\ Frame
    /\ UNCHANGED <<_replicas, _offline_set, _now, aborted, offline_update, latest, assigns,
                   applied, written>>

SyncWithServer(i) ==
    /\ ~aborted
    /\ net = "Star"
    /\ i \in Slots
    /\ LET st == syncWithServer(kind, _replicas,
                                [payload |-> _payload, aborted |-> FALSE], i)
       IN  /\ _payload' = st.payload
           /\ aborted' = st.aborted
    /\ seen' = IF Tracked
               THEN syncWithServer("GCounter", _replicas,
                                   [payload |-> seen, aborted |-> FALSE], i).payload
               ELSE seen
    /\ lastOp' = Op("syncWithServer", i, NULL)
    /\ Frame
    /\ UNCHANGED <<_replicas, _offline_set, _now, offline_update, latest, assigns, applied,
                   written>>

SyncAllReplicasToServer ==
    /\ ~aborted
    /\ net = "Star"
    /\ LET st == syncAllReplicasToServer(kind, _replicas,
                                         [payload |-> _payload, aborted |-> FALSE])
       IN  /\ _payload' = st.payload
           /\ aborted' = st.aborted
    /\ seen' = IF Tracked
               THEN syncAllReplicasToServer("GCounter", _replicas,
                                            [payload |-> seen, aborted |-> FALSE]).payload
               ELSE seen
    /\ lastOp' = Op("syncAllReplicasToServer", 0, NULL)
    /\ Frame
    /\ UNCHANGED <<_replicas, _offline_set, _now, offline_update, latest, assigns, applied,
                   written>>

\* Sum of f[r] over r in rs.
RECURSIVE SumOver(_, _)
SumOver(f, rs) ==
    IF rs = {} THEN 0
    ELSE LET r == CHOOSE x \in rs : TRUE
         IN  f[r] + SumOver(f, rs \ {r})

\* The sum of the deltas >= 0, and of the |delta| < 0, passed to increment so far.
AppliedPos == SumOver([r \in DOMAIN applied |-> applied[r].pos], DOMAIN applied)
AppliedNeg == SumOver([r \in DOMAIN applied |-> applied[r].neg], DOMAIN applied)
Abs(delta) == IF delta >= 0 THEN delta ELSE 0 - delta
Record(r, delta) ==
    [applied EXCEPT ![r] = IF delta >= 0 THEN [@ EXCEPT !.pos = @ + delta]
                           ELSE [@ EXCEPT !.neg = @ - delta]]

\* GCounter::increment(delta) on replica r.
GIncrementCall(r, delta) ==
    /\ ~aborted
    /\ kind = "GCounter"
    /\ _payload' = [_payload EXCEPT ![r] = GCounter_increment(@, r, delta)]
    /\ applied' = Record(r, delta)
    /\ offline_update' = (offline_update \/ (IsOffline(r) /\ delta # 0))
    /\ lastOp' = Op("increment", 0, r)
    /\ Frame
    /\ UNCHANGED <<_replicas, _offline_set, _now, aborted, latest, assigns,
                   seen, written>>

\* The same within the bound on the total of a run.
GIncrement(r, delta) == AppliedPos + delta <= MaxTotal /\ GIncrementCall(r, delta)

\* The deltas around the ranges of unsigned int and uint64_t.
WideDeltas == {UIntRange \div 2, UIntRange - 1, U64Range \div 2}
\* Cap on the sum of the deltas of a run with such deltas.
MaxWideTotal == U64Range
\* GCounter::increment(delta) on replica r with a delta of any size.
GIncrementWide(r, delta) ==
    AppliedPos + delta <= MaxWideTotal /\ GIncrementCall(r, delta)

\* GCounter::increment(delta) of crdt.cpp on replica r.
CppGIncrement(r, delta) ==
    /\ ~aborted
    /\ kind = "CppGCounter"
    /\ AppliedPos + delta <= MaxTotal
    /\ _payload' = [_payload EXCEPT ![r] = CppGCounter_increment(@, r, delta)]
    /\ applied' = Record(r, delta)
    /\ lastOp' = Op("increment", 0, r)
    /\ Frame
    /\ UNCHANGED <<_replicas, _offline_set, _now, aborted, offline_update, latest,
                   assigns, seen, written>>

\* PNCounter::increment(delta) on replica r.
PNIncrement(r, delta) ==
    /\ ~aborted
    /\ kind = "PNCounter"
    /\ AppliedPos + AppliedNeg + Abs(delta) <= MaxPNTotal
    /\ _payload' = [_payload EXCEPT ![r] = PNCounter_increment(@, r, delta)]
    /\ applied' = Record(r, delta)
    /\ offline_update' = (offline_update \/ (IsOffline(r) /\ delta # 0))
    /\ lastOp' = Op("increment", 0, r)
    /\ Frame
    /\ UNCHANGED <<_replicas, _offline_set, _now, aborted, latest, assigns,
                   seen, written>>

\* The writes with the greatest timestamp once payload w has been written.
Latest(old, w) ==
    IF old = {} THEN {w}
    ELSE LET t == (CHOOSE o \in old : TRUE).timestamp
         IN  IF w.timestamp = t THEN old \cup {w}
             ELSE IF w.timestamp[1] > t[1]
                     \/ (w.timestamp[1] = t[1] /\ w.timestamp[2] > t[2]) THEN {w}
             ELSE old

\* LWWRegister::assign(value) and LWWRegister::clear() (value = NULL) on r.
LWWAssign(r, value) ==
    /\ ~aborted
    /\ kind = "LWWRegister"
    /\ SumOver(_now, DOMAIN _now) < MaxWrites
    /\ _now' = [_now EXCEPT ![r] = @ + 1]
    /\ _payload' = [_payload EXCEPT
                       ![r] = Payload_assign(@, value, _now'[r], hashedReplicaName[r])]
    /\ latest' = Latest(latest, _payload'[r])
    /\ lastOp' = Op(IF value = NULL THEN "clear" ELSE "assign", 0, r)
    /\ Frame
    /\ UNCHANGED <<_replicas, _offline_set, aborted, offline_update, assigns, applied,
                   seen, written>>

\* MVRegister::assign(value) on r; clear() is assign({}).
MVAssignCall(r, value) ==
    /\ ~aborted
    /\ kind = "MVRegister"
    /\ assigns' = assigns + 1
    /\ _payload' = [_payload EXCEPT ![r] = MV_assign(@, value, r)]
    /\ seen' = IF Tracked THEN [seen EXCEPT ![r] = increment(@, r, 1)] ELSE seen
    /\ written' = IF Tracked
                  THEN [written EXCEPT
                           ![r] = [done |-> TRUE, value |-> value, at |-> seen'[r]]]
                  ELSE written
    /\ lastOp' = Op("assign", 0, r)
    /\ Frame
    /\ UNCHANGED <<_replicas, _offline_set, _now, aborted, offline_update, latest, applied>>

\* The same within the bound on the number of calls of a run.
MVAssign(r, value) == assigns < MaxAssigns /\ MVAssignCall(r, value)

\* _2PSet::add(x) and addMany(xs) on replica r.
SetAdd(r, x) ==
    /\ ~aborted
    /\ kind = "_2PSet"
    /\ _payload' = [_payload EXCEPT ![r] = _2PSet_add(@, x)]
    /\ lastOp' = Op("_2PSet::add", 0, r)
    /\ Frame
    /\ UNCHANGED <<_replicas, _offline_set, _now, aborted, offline_update, latest,
                   assigns, applied, seen, written>>

SetAddMany(r, xs) ==
    /\ ~aborted
    /\ kind = "_2PSet"
    /\ _payload' = [_payload EXCEPT ![r] = _2PSet_addMany(@, xs)]
    /\ lastOp' = Op("_2PSet::addMany", 0, r)
    /\ Frame
    /\ UNCHANGED <<_replicas, _offline_set, _now, aborted, offline_update, latest,
                   assigns, applied, seen, written>>

\* _2PSet::remove(x) and removeMany(xs) on replica r.
SetRemove(r, x) ==
    /\ ~aborted
    /\ kind = "_2PSet"
    /\ LET res == _2PSet_remove(_payload[r], x)
       IN  /\ _payload' = [_payload EXCEPT ![r] = res.payload]
           /\ returned' = res.returned
    /\ lastOp' = Op("_2PSet::remove", 0, r)
    /\ UNCHANGED <<kind, net, hashedReplicaName>>
    /\ UNCHANGED <<_replicas, _offline_set, _now, aborted, offline_update, latest,
                   assigns, applied, seen, written>>

SetRemoveMany(r, xs) ==
    /\ ~aborted
    /\ kind = "_2PSet"
    /\ LET res == _2PSet_removeMany(_payload[r], xs)
       IN  /\ _payload' = [_payload EXCEPT ![r] = res.payload]
           /\ returned' = res.returned
    /\ lastOp' = Op("_2PSet::removeMany", 0, r)
    /\ UNCHANGED <<kind, net, hashedReplicaName>>
    /\ UNCHANGED <<_replicas, _offline_set, _now, aborted, offline_update, latest,
                   assigns, applied, seen, written>>

\* ---------------------------------------------------------- specifications
\* std::hash<std::string> restricted to the names: timestamps only compare
\* hashes, so one function per weak ordering of the names is drawn (its values
\* are an initial segment of 0..MaxHash); equal hashes of distinct names are
\* included.
HashFunctions(names) ==
    {h \in [names -> 0..MaxHash] :
        \A x \in 0..MaxHash :
            (\E r \in names : h[r] = x) => \A y \in 0..x : \E r \in names : h[r] = y}

InitHistory(k, n, tracked) ==
    /\ kind = k
    /\ net = n
    /\ _replicas = <<>>
    /\ _offline_set = {}
    /\ _payload = [r \in Objects(n) |-> InitPayload(k)]
    /\ _now = [r \in Objects(n) |-> 0]
    /\ hashedReplicaName \in
          IF k = "LWWRegister" THEN HashFunctions(Objects(n))
          ELSE {[r \in Objects(n) |-> 0]}
    /\ aborted = FALSE
    /\ lastOp = Op("init", 0, NULL)
    /\ offline_update = FALSE
    /\ latest = {}
    /\ assigns = 0
    /\ applied = [r \in Objects(n) |-> [pos |-> 0, neg |-> 0]]
    /\ seen = [r \in tracked |-> EmptyVec]
    /\ written = [r \in tracked |-> [done |-> FALSE, value |-> {}, at |-> EmptyVec]]
    /\ returned = TRUE

\* The state after a simulation has constructed its network and replicas.
InitNet(k, n) == InitHistory(k, n, {})

\* The operations of each network class.
P2PNetwork ==
    \/ Add
    \/ \E i \in Slots : Disconnect(i)
    \/ \E i \in Slots : Reconnect(i)
    \/ \E i \in Slots : Broadcast(i)
    \/ BroadcastAll

StarNetwork ==
    \/ StarAdd
    \/ SetServerReplica
    \/ \E i \in Slots : Disconnect(i)
    \/ \E i \in Slots : Reconnect(i)
    \/ \E i \in Slots : SyncWithServer(i)
    \/ SyncAllReplicasToServer

\* The local updates of each CRDT type.
GCounterUpdate ==
    \E r \in Objects(net), delta \in 0..MaxDelta : GIncrement(r, delta)
PNCounterUpdate ==
    \E r \in Objects(net), delta \in (0 - MaxDelta)..MaxDelta : PNIncrement(r, delta)
LWWRegisterUpdate ==
    \E r \in Objects(net), value \in Values \cup {NULL} : LWWAssign(r, value)
MVRegisterUpdate ==
    \E r \in Objects(net), value \in SUBSET Values : MVAssign(r, value)
_2PSetUpdate ==
    \E r \in Objects(net) :
        \/ \E x \in Values : SetAdd(r, x)
        \/ \E xs \in SUBSET Values : SetAddMany(r, xs)
        \/ \E x \in Values : SetRemove(r, x)
        \/ \E xs \in SUBSET Values : SetRemoveMany(r, xs)

\* simulateGCountersInP2PNetwork
InitGCounter == InitNet("GCounter", "P2P")
NextGCounter == P2PNetwork \/ GCounterUpdate
SpecGCounter == InitGCounter /\ [][NextGCounter]_vars

\* simulatePNCountersInP2PNetwork
InitPNCounter == InitNet("PNCounter", "P2P")
NextPNCounter == P2PNetwork \/ PNCounterUpdate
SpecPNCounter == InitPNCounter /\ [][NextPNCounter]_vars

\* simulateLWWRegistersInP2PNetwork
InitLWWRegister == InitNet("LWWRegister", "P2P")
NextLWWRegister == P2PNetwork \/ LWWRegisterUpdate
SpecLWWRegister == InitLWWRegister /\ [][NextLWWRegister]_vars

\* simulateMVRegistersInP2PNetwork
InitMVRegister == InitNet("MVRegister", "P2P")
NextMVRegister == P2PNetwork \/ MVRegisterUpdate
SpecMVRegister == InitMVRegister /\ [][NextMVRegister]_vars

\* simulateMVRegistersInP2PNetwork, which never disconnects a replica, with the
\* histories seen and written recorded.
InitMVSimulation == InitHistory("MVRegister", "P2P", Objects("P2P"))
NextMVSimulation ==
    \/ Add
    \/ \E i \in Slots : Broadcast(i)
    \/ BroadcastAll
    \/ MVRegisterUpdate
SpecMVSimulation == InitMVSimulation /\ [][NextMVSimulation]_vars

\* The first part of simulateMVRegistersInP2PNetwork as it is written, with any
\* values: three replicas are added, A, B and C assign, broadcastAll, A
\* assigns again, B assigns again, broadcastAll.  The position in the function
\* is told by the number of assign calls and the last operation.
SimAssign ==
    /\ Len(_replicas) = Len(ClientOrder)
    /\ assigns < Len(ClientOrder)
    /\ \E value \in SUBSET Values : MVAssignCall(ClientOrder[assigns + 1], value)
SimConverge ==
    /\ assigns = Len(ClientOrder) /\ lastOp = "assign"
    /\ BroadcastAll
SimReassign ==
    /\ \/ assigns = Len(ClientOrder) /\ lastOp = "broadcastAll"
       \/ assigns = Len(ClientOrder) + 1
    /\ \E value \in SUBSET Values :
          MVAssignCall(ClientOrder[assigns - Len(ClientOrder) + 1], value)
SimReconverge ==
    /\ assigns = Len(ClientOrder) + 2 /\ lastOp = "assign"
    /\ BroadcastAll
InitShoppingCart == InitHistory("MVRegister", "P2P", Objects("P2P"))
NextShoppingCart == Add \/ SimAssign \/ SimConverge \/ SimReassign \/ SimReconverge
SpecShoppingCart == InitShoppingCart /\ [][NextShoppingCart]_vars

\* simulateGCountersInStarNetwork
InitStar == InitNet("GCounter", "Star")
NextStar == StarNetwork \/ GCounterUpdate
SpecStar == InitStar /\ [][NextStar]_vars

\* Every CRDT type in the star network.
InitStarNetwork == \E k \in Kinds : InitNet(k, "Star")
NextStarNetwork ==
    StarNetwork \/ GCounterUpdate \/ PNCounterUpdate \/ LWWRegisterUpdate \/ MVRegisterUpdate
SpecStarNetwork == InitStarNetwork /\ [][NextStarNetwork]_vars

\* simulate2PSetsInP2PNetwork
Init2PSet == InitNet("_2PSet", "P2P")
Next2PSet == P2PNetwork \/ _2PSetUpdate
Spec2PSet == Init2PSet /\ [][Next2PSet]_vars

\* Both counter types in the P2P network.
InitCounters == InitGCounter \/ InitPNCounter
NextCounters == P2PNetwork \/ GCounterUpdate \/ PNCounterUpdate
SpecCounters == InitCounters /\ [][NextCounters]_vars

\* GCounter replicas in either network.
InitGCounterNets == InitGCounter \/ InitStar
NextGCounterNets == P2PNetwork \/ StarNetwork \/ GCounterUpdate
SpecGCounterNets == InitGCounterNets /\ [][NextGCounterNets]_vars

\* Every CRDT type in the P2P network.
InitP2P == \E k \in Kinds : InitNet(k, "P2P")
NextP2P ==
    P2PNetwork \/ GCounterUpdate \/ PNCounterUpdate \/ LWWRegisterUpdate \/ MVRegisterUpdate
SpecP2P == InitP2P /\ [][NextP2P]_vars

\* Every simulation of main.cpp.
Init == InitP2P \/ InitStar
Next == NextP2P \/ StarNetwork
Spec == Init /\ [][Next]_vars

\* ------------------------------------------------- merge on any payloads
\* The VersionVec values whose keys are replica names and whose entries lie in
\* `entries` (a key may be absent).
VecUniverse(entries) ==
    UNION {[ks -> entries] : ks \in SUBSET Range(ClientOrder)}
\* The LWWRegister payloads with clocks up to MaxClock and hashes up to MaxHash.
LWWUniverse ==
    [value : Values \cup {DefaultValue},
     timestamp : (0..MaxClock) \X (0..MaxHash),
     empty : BOOLEAN]
\* The MVRegisterSetNode values over the vectors with entries 1..MaxEntry.
NodeUniverse ==
    {EmptyNode(vv) : vv \in VecUniverse(1..MaxEntry)}
        \cup {ValueNode(v, vv) : v \in Values, vv \in VecUniverse(1..MaxEntry)}
\* The sets of at most n such nodes.
RECURSIVE NodeSets(_)
NodeSets(n) ==
    IF n = 0 THEN {{}}
    ELSE LET smaller == NodeSets(n - 1)
         IN  smaller \cup {ns \cup {node} : ns \in smaller, node \in NodeUniverse}
\* The payloads of CRDT type k drawn as inputs of merge.
Payloads(k) ==
    CASE k = "GCounter" -> VecUniverse(0..MaxEntry)
      [] k = "PNCounter" -> [positive : VecUniverse(1..MaxEntry),
                             negative : VecUniverse(1..MaxEntry)]
      [] k = "LWWRegister" -> LWWUniverse
      [] k = "MVRegister" -> NodeSets(MaxNodes)

\* Three replica objects of one type holding any payloads, in no network.
InitLaws ==
    /\ kind \in Kinds
    /\ net = "None"
    /\ _replicas = <<>>
    /\ _offline_set = {}
    /\ _payload \in [Objects("None") -> Payloads(kind)]
    /\ _now = [r \in Objects("None") |-> 0]
    /\ hashedReplicaName = [r \in Objects("None") |-> 0]
    /\ aborted = FALSE
    /\ lastOp = Op("init", 0, NULL)
    /\ offline_update = FALSE
    /\ latest = {}
    /\ assigns = 0
    /\ applied = [r \in Objects("None") |-> [pos |-> 0, neg |-> 0]]
    /\ seen = <<>>
    /\ written = <<>>
    /\ returned = TRUE

\* replica->merge(other->payload()) for two replica objects r and o.
MergeFrom(r, o) ==
    /\ r # o
    /\ _payload' = [_payload EXCEPT ![r] = Merge(kind, @, _payload[o])]
    /\ lastOp' = Op("merge", 0, r)
    /\ Frame
    /\ UNCHANGED <<_replicas, _offline_set, _now, aborted, offline_update, latest,
                   assigns, applied,
                   seen, written>>

NextLaws == \E r, o \in Objects(net) : MergeFrom(r, o)
SpecLaws == InitLaws /\ [][NextLaws]_vars

\* GCounter replicas of crdt.h with deltas up to the range of uint64_t:
\* increments and merges of one another.
InitGCounterWide == InitNet("GCounter", "None")
NextGCounterWide ==
    \/ \E r \in Objects(net), delta \in WideDeltas : GIncrementWide(r, delta)
    \/ \E r, o \in Objects(net) : MergeFrom(r, o)
SpecGCounterWide == InitGCounterWide /\ [][NextGCounterWide]_vars

\* The GCounter replicas of crdt.cpp: increments and merges of one another.
InitCppGCounter == InitNet("CppGCounter", "None")
NextCppGCounter ==
    \/ \E r \in Objects(net), delta \in 0..MaxDelta : CppGIncrement(r, delta)
    \/ \E r, o \in Objects(net) : MergeFrom(r, o)
SpecCppGCounter == InitCppGCounter /\ [][NextCppGCounter]_vars

\* ------------------------------------------------------------ properties
\* Every slot of a non-empty network is bound (no replica is partitioned).
AllSlotsOnline ==
    /\ _replicas # <<>>
    /\ \A i \in Slots : At(_replicas, i) # NULL
\* Every replica object has been added and every slot is bound.
FullNetworkOnline == AllSlotsOnline /\ Len(_replicas) = Len(ClientOrder)
\* The replicas bound to a slot.
Bound == {At(_replicas, i) : i \in Slots} \ {NULL}

\* C1: in a P2PNetwork whose slots are all online, the state right after
\* broadcastAll() has one query() value on every replica, countPartitions() = 1,
\* whatever the CRDT type and whatever updates, broadcasts, disconnects and
\* reconnects came before.
C1_BroadcastAllConverges ==
    (net = "P2P" /\ lastOp = "broadcastAll" /\ AllSlotsOnline)
        => /\ countPartitions = 1
           /\ \A r1, r2 \in Bound :
                 Query(kind, _payload[r1]) = Query(kind, _payload[r2])

\* A converged MVRegister network of three replicas holding two assigned values.
C1_Witness ==
    /\ net = "P2P" /\ lastOp = "broadcastAll" /\ FullNetworkOnline
    /\ kind = "MVRegister"
    /\ countPartitions = 1
    /\ \A r \in Bound : Query(kind, _payload[r]) = Values

\* The replicas held in the offline collection whose slot is unbound.
OfflineReplicas == {e[2] : e \in {x \in _offline_set : At(_replicas, x[1]) = NULL}}
\* The greatest value the replicas rs hold for key k in the vectors vec[r].
RECURSIVE MaxOver(_, _, _)
MaxOver(vec, k, rs) ==
    IF rs = {} THEN 0
    ELSE LET r == CHOOSE x \in rs : TRUE
             rest == MaxOver(vec, k, rs \ {r})
             own == IF k \in DOMAIN vec[r] THEN vec[r][k] ELSE 0
         IN  IF own >= rest THEN own ELSE rest
\* Sum over the keys of the per-key maximum over the replicas rs.
SumOfMax(vec, rs) ==
    SumOver([k \in Objects(net) |-> MaxOver(vec, k, rs)], Objects(net))
\* The deltas applied to the replicas rs: the non-negative ones, the magnitudes
\* of the negative ones.
PosDeltas(rs) == SumOver([r \in DOMAIN applied |-> applied[r].pos], rs)
NegDeltas(rs) == SumOver([r \in DOMAIN applied |-> applied[r].neg], rs)

\* C2: GCounter replicas that start at zero: after broadcastAll() with every
\* slot online, each replica's query() is the sum over the replica keys of the
\* greatest entry any replica holds for the key, which is the sum of all the
\* deltas ever applied to the replicas of the network.
C2_GCounterConvergedValue ==
    (kind = "GCounter" /\ net = "P2P" /\ lastOp = "broadcastAll" /\ AllSlotsOnline)
        => \A r \in Bound :
              /\ GCounter_query(_payload[r]) = SumOfMax(_payload, Bound)
              /\ GCounter_query(_payload[r]) = PosDeltas(Bound)

\* Three GCounter replicas, each incremented, converged on the sum of the deltas.
C2_Witness ==
    /\ kind = "GCounter" /\ net = "P2P" /\ lastOp = "broadcastAll"
    /\ FullNetworkOnline
    /\ \A r \in Bound : applied[r].pos >= 1
    /\ \A r \in Bound : GCounter_query(_payload[r]) = MaxTotal

\* The operations that propagate payloads between replicas.
Propagation(op) ==
    op \in {"broadcast", "broadcastAll", "syncWithServer", "syncAllReplicasToServer"}

\* C3: while a replica is offline (its slot unbound, the replica in the offline
\* collection) no broadcast, broadcastAll, syncWithServer or
\* syncAllReplicasToServer changes its payload, none merges its payload into
\* another replica (every entry of an online replica stays within the greatest
\* entry the online replicas held), and a broadcast from an unbound slot
\* changes no payload at all.
C3_PartitionIsolation ==
    [][/\ Propagation(lastOp')
            => /\ \A r \in Objects(net) \ Bound : _payload'[r] = _payload[r]
               /\ \A r \in Bound : \A k \in Objects(net) :
                     localVersionForReplica(_payload'[r], k)
                         <= MaxOver(_payload, k, Bound)
       /\ \A i \in Slots :
             (Broadcast(i) /\ At(_replicas, i) = NULL) => _payload' = _payload
      ]_vars

\* B is offline with updates of its own while A and C converge on a greater
\* value: two partitions.
C3_Witness ==
    /\ kind = "GCounter" /\ net = "P2P" /\ lastOp = "broadcastAll"
    /\ Len(_replicas) = Len(ClientOrder)
    /\ OfflineReplicas = {"B"}
    /\ GCounter_query(_payload["B"]) > 0
    /\ localVersionForReplica(_payload["B"], "B") > 0
    /\ localVersionForReplica(_payload["A"], "B") = 0
    /\ GCounter_query(_payload["A"]) = GCounter_query(_payload["C"])
    /\ GCounter_query(_payload["A"]) > GCounter_query(_payload["B"])
    /\ countPartitions = 2

\* The delta this step's increment applies to replica r (0 when the step
\* increments another replica or none).
DeltaOf(r) ==
    (applied'[r].pos - applied[r].pos) - (applied'[r].neg - applied[r].neg)

\* C4: GCounter and PNCounter: an increment on an offline replica changes its
\* query() by the delta, and after the replicas are reconnected a
\* broadcastAll() leaves every replica at the signed sum of all the deltas
\* ever applied, those applied on either side of the partition included.
C4_HealingLosesNoUpdate ==
    [][/\ (net = "P2P" /\ lastOp' = "increment")
             => \A r \in OfflineReplicas :
                   Query(kind, _payload'[r]) = Query(kind, _payload[r]) + DeltaOf(r)
       /\ (net = "P2P" /\ lastOp' = "broadcastAll" /\ AllSlotsOnline'
               /\ _offline_set' = {})
             => \A r \in Bound' :
                   Query(kind, _payload'[r]) = (PosDeltas(Bound) - NegDeltas(Bound))'
      ]_vars

\* A healed network of three PNCounter replicas that converged on updates made
\* while a replica was offline, increments and decrements alike.
C4_Witness ==
    /\ kind = "PNCounter" /\ net = "P2P" /\ lastOp = "broadcastAll"
    /\ FullNetworkOnline /\ _offline_set = {}
    /\ offline_update
    /\ PosDeltas(Bound) = 1 /\ NegDeltas(Bound) = 1
    /\ \A r \in Bound : PNCounter_query(_payload[r]) = 0

\* C5: GCounter: every entry of every replica's payload and every replica's
\* query() never decrease, whatever increment or merge the step performs.
C5_GCounterMonotone ==
    [][kind = "GCounter"
          => \A r \in Objects(net) :
                /\ \A k \in Objects(net) :
                      localVersionForReplica(_payload'[r], k)
                          >= localVersionForReplica(_payload[r], k)
                /\ GCounter_query(_payload'[r]) >= GCounter_query(_payload[r])
      ]_vars

\* A replica that has counted itself and has merged two other replicas' entries.
C5_Witness ==
    /\ kind = "GCounter" /\ Propagation(lastOp)
    /\ \E r \in Bound :
          /\ \A k \in Range(ClientOrder) : localVersionForReplica(_payload[r], k) = 1
          /\ GCounter_query(_payload[r]) = MaxTotal
          /\ \E o \in Bound : GCounter_query(_payload[o]) < MaxTotal

\* C6: PNCounter: after broadcastAll() with every slot online each replica's
\* query() is the sum of the per-key maxima of the positive vectors minus that
\* of the negative vectors, which is the signed sum of all applied deltas, and
\* it may be negative.
C6_PNCounterConvergedValue ==
    (kind = "PNCounter" /\ net = "P2P" /\ lastOp = "broadcastAll" /\ AllSlotsOnline)
        => \A r \in Bound :
              /\ PNCounter_query(_payload[r])
                    = SumOfMax([o \in DOMAIN _payload |-> _payload[o].positive], Bound)
                      - SumOfMax([o \in DOMAIN _payload |-> _payload[o].negative], Bound)
              /\ PNCounter_query(_payload[r]) = PosDeltas(Bound) - NegDeltas(Bound)

\* Three PNCounter replicas converged on a negative value that two of them
\* decremented.
C6_Witness ==
    /\ kind = "PNCounter" /\ net = "P2P" /\ lastOp = "broadcastAll"
    /\ FullNetworkOnline
    /\ \E a, b \in Bound : a # b /\ applied[a].neg = 1 /\ applied[b].neg = 1
    /\ \A r \in Bound : PNCounter_query(_payload[r]) = 0 - MaxPNTotal

\* The keys of vector `after` other than k are those of `before`, unchanged.
OtherKeysKept(before, after, k) ==
    /\ DOMAIN after \ {k} = DOMAIN before \ {k}
    /\ \A n \in DOMAIN before \ {k} : after[n] = before[n]

\* C7: an increment on replica r changes only r's own key of r's payload (of
\* the positive vector when delta >= 0, of the negative vector by |delta|
\* otherwise), changes r.query() by exactly delta and touches no other replica.
C7_IncrementOwnKeyOnly ==
    [][lastOp' = "increment"
          => \A r \in Objects(net) :
                /\ \A o \in Objects(net) \ {r} :
                      _payload'[r] = _payload[r] \/ _payload'[o] = _payload[o]
                /\ IF kind = "GCounter"
                   THEN /\ OtherKeysKept(_payload[r], _payload'[r], r)
                        /\ localVersionForReplica(_payload'[r], r)
                              = localVersionForReplica(_payload[r], r) + DeltaOf(r)
                        /\ GCounter_query(_payload'[r])
                              = GCounter_query(_payload[r]) + DeltaOf(r)
                   ELSE /\ OtherKeysKept(_payload[r].positive, _payload'[r].positive, r)
                        /\ OtherKeysKept(_payload[r].negative, _payload'[r].negative, r)
                        /\ localVersionForReplica(_payload'[r].positive, r)
                              = localVersionForReplica(_payload[r].positive, r)
                                + (applied'[r].pos - applied[r].pos)
                        /\ localVersionForReplica(_payload'[r].negative, r)
                              = localVersionForReplica(_payload[r].negative, r)
                                + (applied'[r].neg - applied[r].neg)
                        /\ PNCounter_query(_payload'[r])
                              = PNCounter_query(_payload[r]) + DeltaOf(r)
      ]_vars

\* A PNCounter replica that holds another replica's entry and has just been
\* decremented after an earlier increment of its own.
C7_Witness ==
    /\ kind = "PNCounter" /\ lastOp = "increment"
    /\ \E r \in Bound :
          /\ localVersionForReplica(_payload[r].negative, r) = 1
          /\ \E o \in Bound \ {r} : localVersionForReplica(_payload[r].positive, o) = 1
          /\ PNCounter_query(_payload[r]) = 0

\* C8: LWWRegister: after broadcastAll() with every replica added and online,
\* all replicas hold one payload, and it is a write with the greatest
\* (clock, replica_hash) timestamp of all writes performed (clocks compared
\* first, the higher replica_hash winning among equal clocks); with no write
\* every payload is the initial one.
C8_LastWriterWins ==
    (kind = "LWWRegister" /\ lastOp = "broadcastAll" /\ FullNetworkOnline)
        => /\ \A r1, r2 \in Bound : _payload[r1] = _payload[r2]
           /\ \A r \in Bound :
                 IF latest = {} THEN _payload[r] = LWW_init ELSE _payload[r] \in latest

\* Two replicas wrote at the same clock with different hashes: every replica
\* holds the value written under the higher hash.
C8_Witness ==
    /\ kind = "LWWRegister" /\ lastOp = "broadcastAll" /\ FullNetworkOnline
    /\ \E a, b \in Bound :
          /\ _now[a] = 1 /\ _now[b] = 1
          /\ hashedReplicaName[a] < hashedReplicaName[b]
          /\ \A r \in Bound :
                /\ _payload[r].timestamp = <<1, hashedReplicaName[b]>>
                /\ LWW_query(_payload[r]) \in Values

\* C9: the payload of a replica after a local assign or clear is >= the payload
\* before it in the payload order (Payload::operator<=). The code does not
\* advance _now when a merge adopts a greater timestamp, so this fails.
C9_LocalUpdateMonotone ==
    [][(lastOp' \in {"assign", "clear"} /\ kind = "LWWRegister")
          => \A r \in Objects(net) : Payload_le(_payload[r], _payload'[r])
      ]_vars

\* C10: LWWRegister: clear() advances the replica's clock by one, stamps the
\* payload with it and leaves query() at nullopt; once the replicas have
\* converged with a clear as the greatest write, every replica's query() is
\* nullopt.
C10_ClearWins ==
    [][/\ (kind = "LWWRegister" /\ lastOp' = "clear")
             => \A r \in Objects(net) :
                   _payload'[r] # _payload[r]
                       => /\ _now'[r] = _now[r] + 1
                          /\ _payload'[r].timestamp = <<_now'[r], hashedReplicaName[r]>>
                          /\ _payload'[r].empty
                          /\ LWW_query(_payload'[r]) = NULL
       /\ (kind = "LWWRegister" /\ lastOp' = "broadcastAll" /\ FullNetworkOnline'
               /\ latest' # {} /\ \A w \in latest' : w.empty)
             => \A r \in Bound' : LWW_query(_payload'[r]) = NULL
      ]_vars

\* Every replica has converged on a clear that followed an assign on the same
\* replica: the payload is empty and still holds the assigned value.
C10_Witness ==
    /\ kind = "LWWRegister" /\ lastOp = "broadcastAll" /\ FullNetworkOnline
    /\ \A r \in Bound :
          /\ _payload[r].empty
          /\ _payload[r].value \in Values
          /\ _payload[r].timestamp[1] = MaxWrites
          /\ LWW_query(_payload[r]) = NULL

\* C11: MVRegister: assign(V) on replica r gives every node of the new payload
\* the version vector new_vv = (pointwise max of the vectors of the nodes held
\* before) with r's entry incremented by 1; the payload becomes one node per
\* value of V, or one empty node when V is empty.  The code clears _set before
\* it computes the vector, so new_vv is always {r: 1} and this fails.
C11_AssignDominates ==
    [][\A r \in Objects(net) : \A V \in SUBSET Values :
          MVAssign(r, V)
              => LET new_vv == increment(MergeAll(EmptyVec, _payload[r]), r, 1)
                 IN  _payload'[r] = IF V = {} THEN {EmptyNode(new_vv)}
                                    ELSE {ValueNode(v, new_vv) : v \in V}
      ]_vars

\* The merge the claims describe: a node is kept unless some node of the
\* opposite side strictly dominates it.
RefMerge(A, B) ==
    {a \in A : ~\E b \in B : dominatedBy(a.version_vector, b.version_vector)}
    \cup
    {b \in B : ~\E a \in A : dominatedBy(b.version_vector, a.version_vector)}

\* C12: MVRegister: for all payloads A (receiver) and B (argument), empty ones
\* and several-node ones included, merge leaves the receiver with exactly
\* {a in A | no b in B with a.VV < b.VV} union {b in B | no a in A with
\* b.VV < a.VV}.  The code's nested loops keep nothing when either side is
\* empty and keep a node that some (not every) opposite node fails to dominate.
C12_MergeIsReference ==
    [][\A r, o \in Objects(net) :
          (kind = "MVRegister" /\ MergeFrom(r, o))
              => _payload'[r] = RefMerge(_payload[r], _payload[o])
      ]_vars

\* The latest assign of a was made before a had merged the latest assign of b.
WroteUnaware(a, b) ==
    /\ written[a].done /\ written[b].done
    /\ localVersionForReplica(written[a].at, b) < localVersionForReplica(written[b].at, b)
\* Replica a has merged the latest assign of b.
HasMerged(a, b) ==
    localVersionForReplica(seen[a], b) = localVersionForReplica(written[b].at, b)

\* C13: MVRegister: when A and B have each called assign (V1, V2) without
\* having merged the other's write and have then merged each other's payloads
\* (the network holding the two of them only), query() is V1 union V2 on both.
\* Fails on the code when B still holds an earlier write of A: the assign of
\* V1 carries the same version vector {A: 1} and does not supersede it (C11).
C13_ConcurrentWritesKept ==
    \A a, b \in Bound :
        (/\ a # b /\ Len(_replicas) = 2
         /\ WroteUnaware(a, b) /\ WroteUnaware(b, a)
         /\ HasMerged(a, b) /\ HasMerged(b, a))
            => /\ MV_query(_payload[a]) = written[a].value \cup written[b].value
               /\ MV_query(_payload[b]) = written[a].value \cup written[b].value

\* Replica r's latest assign was made after r had merged every write that any
\* replica of the network has made or merged, and another replica has written.
ObservedAll(r) ==
    /\ written[r].done
    /\ \A o \in Bound : \A k \in Objects(net) :
          localVersionForReplica(seen[o], k) <= localVersionForReplica(written[r].at, k)
    /\ \E o \in Bound \ {r} : written[o].done

\* C14: MVRegister: once R has observed the writes of the others, an assign(V')
\* on R supersedes them: after R's payload is merged into every replica by a
\* broadcast from R, no value outside V' is in query() on any replica.  On the
\* code R's new nodes carry {R: 1} and dominate nothing (C11), so this fails.
C14_SupersedingWrite ==
    [][\A i \in Slots :
          (/\ Broadcast(i)
           /\ At(_replicas, i) # NULL
           /\ ObservedAll(At(_replicas, i)))
              => \A o \in Bound : MV_query(_payload'[o]) \subseteq written[At(_replicas, i)].value
      ]_vars

\* C15: the run of simulateMVRegistersInP2PNetwork: after A, B and C have each
\* assigned and converged, A assigns again and B assigns again (clears) while C
\* does nothing; countPartitions() is 3 when the three query() values differ,
\* and the broadcastAll() that follows leaves every replica's query() at what
\* C still held, the value converged on before (joined with the values just
\* re-assigned, which the simulation takes from it), with countPartitions() = 1.
C15_ShoppingCartAnomaly ==
    [][/\ (assigns = Len(ClientOrder) /\ lastOp' = "broadcastAll")
             => \A r \in Bound :
                   MV_query(_payload'[r]) = UNION {written[o].value : o \in Bound}
       /\ (assigns = Len(ClientOrder) + 2 /\ lastOp' = "broadcastAll")
             => /\ Cardinality({MV_query(_payload[r]) : r \in Bound}) = countPartitions
                /\ \A r \in Bound :
                      MV_query(_payload'[r])
                          = MV_query(_payload[ClientOrder[Len(ClientOrder)]])
                            \cup written[ClientOrder[1]].value
                            \cup written[ClientOrder[2]].value
                /\ countPartitions' = 1
      ]_vars

\* The run with C holding both values, A having re-assigned one of them and B
\* having cleared: both values are back on every replica.
C15_Witness ==
    /\ assigns = Len(ClientOrder) + 2 /\ lastOp = "broadcastAll"
    /\ written["A"].value = {"x"} /\ written["B"].value = {}
    /\ \A r \in Bound : MV_query(_payload[r]) = Values /\ Cardinality(_payload[r]) >= 3
    /\ countPartitions = 1

\* C16: merge is idempotent: for every payload x of GCounter, PNCounter,
\* LWWRegister and MVRegister, the initial payload included, a replica whose
\* payload is x that merges x keeps the payload x.
C16_MergeIdempotent ==
    [][\A r, o \in Objects(net) :
          (_payload[o] = _payload[r] /\ MergeFrom(r, o))
              => _payload'[r] = _payload[r]
      ]_vars

\* A merge of two equal MVRegister payloads of two nodes has been made.
C16_Witness ==
    /\ kind = "MVRegister"
    /\ lastOp = "merge"
    /\ \E r, o \in Objects(net) :
          /\ r # o
          /\ _payload[o] = _payload[r]
          /\ Cardinality(_payload[o]) = 2
          /\ MV_query(_payload[o]) = Values

\* x merge y and y merge x answer query() alike, for the payloads of r and o.
Commute(r, o) ==
    Query(kind, Merge(kind, _payload[r], _payload[o]))
        = Query(kind, Merge(kind, _payload[o], _payload[r]))

\* The replica names hash to distinct values.
DistinctHashes ==
    \A r, o \in Objects(net) : r # o => hashedReplicaName[r] # hashedReplicaName[o]

VersionVecs(k, p) ==
    CASE k = "GCounter" -> <<p>>
      [] k = "PNCounter" -> <<p.positive, p.negative>>
      [] OTHER -> <<>>

\* `merged` holds, for every key of v or of other, the greater of the two
\* versions (a key a vector lacks counts as 0), and no other key.
PointwiseMax(v, other, merged) ==
    /\ DOMAIN merged \subseteq DOMAIN v \cup DOMAIN other
    /\ \A k \in DOMAIN v \cup DOMAIN other :
          /\ localVersionForReplica(merged, k) >= localVersionForReplica(v, k)
          /\ localVersionForReplica(merged, k) >= localVersionForReplica(other, k)
          /\ localVersionForReplica(merged, k)
                \in {localVersionForReplica(v, k), localVersionForReplica(other, k)}

\* C18: for any three payloads x, y, z of GCounter, of PNCounter or of
\* LWWRegister, (x merge y) merge z and x merge (y merge z) answer query()
\* alike; the vectors of a merged counter payload are the pointwise maxima over
\* the union of the keys, and merging an empty vector changes nothing.  x, y
\* and z are the payloads of the three replica objects, which take every
\* combination of values.
C18_MergeAssociative ==
    kind \in {"GCounter", "PNCounter", "LWWRegister"} =>
        LET x == _payload[ClientOrder[1]]
            y == _payload[ClientOrder[2]]
            z == _payload[ClientOrder[3]]
            merged == Merge(kind, x, y)
        IN  /\ Query(kind, Merge(kind, merged, z))
                  = Query(kind, Merge(kind, x, Merge(kind, y, z)))
            /\ \A n \in DOMAIN VersionVecs(kind, merged) :
                  PointwiseMax(VersionVecs(kind, x)[n], VersionVecs(kind, y)[n],
                               VersionVecs(kind, merged)[n])
            /\ kind # "LWWRegister" => Merge(kind, x, InitPayload(kind)) = x

\* A GCounter payload that is itself the result of a merge, a second one and
\* a third one with a zero entry: the two groupings both count 3 over the keys
\* A, B and C.
C18_Witness ==
    /\ kind = "GCounter" /\ lastOp = "merge"
    /\ _payload["A"] = [k \in {"A", "B"} |-> 1]
    /\ _payload["B"] = [k \in {"B"} |-> 1]
    /\ _payload["C"] = [k \in {"A", "C"} |-> IF k = "A" THEN 0 ELSE 1]
    /\ LET x == _payload["A"]
           y == _payload["B"]
           z == _payload["C"]
       IN  /\ Merge(kind, Merge(kind, x, y), z) = [k \in {"A", "B", "C"} |-> 1]
           /\ Query(kind, Merge(kind, x, Merge(kind, y, z))) = 3

\* C19: for any three MVRegister payloads x, y, z, each any finite set of
\* nodes, (x merge y) merge z and x merge (y merge z) answer query() alike.
\* x, y and z are the payloads of the three replica objects.
C19_MVMergeAssociative ==
    kind = "MVRegister" =>
        LET x == _payload[ClientOrder[1]]
            y == _payload[ClientOrder[2]]
            z == _payload[ClientOrder[3]]
        IN  MV_query(MV_merge(MV_merge(x, y), z))
                = MV_query(MV_merge(x, MV_merge(y, z)))

\* A sync step has run and its assertion replica->query() == server->query()
\* has held.
SyncAgrees ==
    lastOp \in {"syncWithServer", "syncAllReplicasToServer"} => ~aborted

Unreachable(i) ==
    i = 0 \/ At(_replicas, i) = NULL \/ At(_replicas, 0) = NULL

\* C21: syncWithServer(i) changes no replica's payload when i = 0, when client
\* i is offline or when slot 0 is not bound; the call returns normally, and
\* countPartitions() is the same before and after.
C21_UnreachableSyncIsNoOp ==
    [][\A i \in Slots :
          (Unreachable(i) /\ SyncWithServer(i))
              => /\ _payload' = _payload
                 /\ ~aborted'
                 /\ countPartitions' = countPartitions
      ]_vars

\* A sync was tried while the server was down, with an online client ahead of
\* the server: the partition stays.
C21_Witness ==
    /\ net = "Star" /\ kind = "GCounter"
    /\ lastOp = "syncWithServer" /\ ~aborted
    /\ Len(_replicas) = 3
    /\ At(_replicas, 0) = NULL
    /\ <<0, ServerName>> \in _offline_set
    /\ At(_replicas, 1) # NULL /\ At(_replicas, 2) # NULL
    /\ Query(kind, _payload[At(_replicas, 1)]) = 1
    /\ Query(kind, _payload[At(_replicas, 2)]) = 2
    /\ Query(kind, _payload[ServerName]) = 0
    /\ countPartitions = 3

\* C22: GCounter replicas in a star network, the server and all n clients
\* online: a syncAllReplicasToServer() leaves the server and the client of the
\* last slot at the sum of all increments (earlier clients may be behind), and
\* a second one right after it, with no step in between, leaves every
\* replica's query() at that sum, with countPartitions() = 1.
C22_TwoRounds ==
    [][(kind = "GCounter" /\ net = "Star" /\ AllSlotsOnline
            /\ lastOp' = "syncAllReplicasToServer")
          => /\ GCounter_query(_payload'[At(_replicas, 0)]) = PosDeltas(Bound)
             /\ GCounter_query(_payload'[At(_replicas, Len(_replicas) - 1)])
                   = PosDeltas(Bound)
             /\ lastOp = "syncAllReplicasToServer"
                   => /\ \A r \in Bound : GCounter_query(_payload'[r]) = PosDeltas(Bound)
                      /\ countPartitions' = 1
      ]_vars

\* The first round has left the first client behind the server and the last
\* client, which count every increment.
C22_Witness ==
    /\ kind = "GCounter" /\ net = "Star" /\ AllSlotsOnline /\ _offline_set = {}
    /\ lastOp = "syncAllReplicasToServer"
    /\ Len(_replicas) = 3
    /\ applied["A"].pos = 1 /\ applied["B"].pos = 2
    /\ GCounter_query(_payload[ServerName]) = 3
    /\ GCounter_query(_payload[At(_replicas, 2)]) = 3
    /\ GCounter_query(_payload[At(_replicas, 1)]) = 1
    /\ countPartitions = 2

\* C23: _2PSet: an element in the removed set R of a replica stays in R and is
\* never again in that replica's query(), whatever add, merge or other step
\* follows; so once R has been merged to every replica, no add(x) followed by
\* any broadcasts makes x a member of query() on any replica.
C23_TombstonesPermanent ==
    [][kind = "_2PSet" =>
          \A r \in Objects(net), x \in Values :
              x \in _payload[r].R
                  => /\ x \in _payload'[r].R
                     /\ x \notin _2PSet_query(_payload'[r])
      ]_vars

\* S6: every element was added, removed and the removal broadcast; an add on
\* A and a broadcast later every query() is still empty.
C23_Witness ==
    /\ kind = "_2PSet" /\ FullNetworkOnline
    /\ lastOp = "broadcast"
    /\ \A r \in Bound :
          /\ _payload[r].A = Values /\ _payload[r].R = Values
          /\ _2PSet_query(_payload[r]) = {}
    /\ countPartitions = 1

\* C24: _2PSet: remove(x) with x not in A \ R returns failure and changes
\* neither A nor R; removeMany(xs) returns success only if every element of xs
\* is in A \ R, and then adds all of them to R; otherwise it returns failure
\* and leaves A and R as they were.
C24_RemoveFailureAndAtomicity ==
    [][/\ (kind = "_2PSet" /\ lastOp' = "_2PSet::remove")
            => \A r \in Objects(net), x \in Values :
                  (x \notin _payload[r].A \ _payload[r].R /\ SetRemove(r, x))
                      => ~returned' /\ _payload' = _payload
       /\ (kind = "_2PSet" /\ lastOp' = "_2PSet::removeMany")
            => \A r \in Objects(net), xs \in SUBSET Values :
                  SetRemoveMany(r, xs)
                      => IF xs \subseteq _payload[r].A \ _payload[r].R
                         THEN /\ returned'
                              /\ _payload'[r].R = _payload[r].R \cup xs
                              /\ _payload'[r].A = _payload[r].A
                         ELSE ~returned' /\ _payload' = _payload
      ]_vars

\* A removeMany has failed on a replica that holds one of the two elements:
\* nothing was removed.
C24_Witness ==
    /\ kind = "_2PSet"
    /\ lastOp = "_2PSet::removeMany" /\ ~returned
    /\ \A r \in Objects(net) : _payload[r] = [A |-> {"x"}, R |-> {}]

\* The replicas that add() has been called with in the P2PNetwork.
Added == {ClientOrder[n] : n \in 1..Len(_replicas)}

\* C25: in a P2PNetwork, after any add, disconnect, reconnect, local updates
\* and broadcasts, countPartitions() is the number of distinct query() values
\* over all added replicas, online and offline; for a non-empty network it is
\* 1 exactly when every added replica has the same query() value.
C25_CountPartitionsCountsAll ==
    net = "P2P" =>
        /\ countPartitions = Cardinality({Query(kind, _payload[r]) : r \in Added})
        /\ Added # {} =>
              (countPartitions = 1
                  <=> \A r, o \in Added :
                          Query(kind, _payload[r]) = Query(kind, _payload[o]))

\* Two online replicas agree and the third, offline, has another value.
C25_Witness ==
    /\ net = "P2P" /\ kind = "GCounter"
    /\ Len(_replicas) = 3
    /\ At(_replicas, 0) # NULL /\ At(_replicas, 1) # NULL /\ At(_replicas, 2) = NULL
    /\ <<2, "C">> \in _offline_set
    /\ Query(kind, _payload["A"]) = 1 /\ Query(kind, _payload["B"]) = 1
    /\ Query(kind, _payload["C"]) = 3
    /\ countPartitions = 2

\* The entries the offline collection holds for slot i.
OfflineEntries(i) == {e \in _offline_set : e[1] = i}

\* C26: in P2PNetwork and StarNetwork, disconnect(i) on an already-offline
\* slot changes nothing (the offline collection still holds exactly one entry
\* for i); reconnect(i) on a slot that is not offline changes nothing;
\* disconnect(i) moves the replica of slot i to the offline collection and the
\* reconnect(i) that follows rebinds that very replica and removes the entry;
\* neither operation changes any payload.
C26_DisconnectReconnect ==
    [][/\ lastOp' = "disconnect" =>
            \A i \in Slots :
                Disconnect(i) =>
                    /\ _payload' = _payload
                    /\ At(_replicas, i) = NULL
                          => /\ _replicas' = _replicas /\ _offline_set' = _offline_set
                             /\ Cardinality(OfflineEntries(i)) <= 1
                    /\ At(_replicas, i) # NULL
                          => /\ At(_replicas', i) = NULL
                             /\ OfflineEntries(i)' = {<<i, At(_replicas, i)>>}
       /\ lastOp' = "reconnect" =>
            \A i \in Slots :
                Reconnect(i) =>
                    /\ _payload' = _payload
                    /\ At(_replicas, i) # NULL
                          => /\ _replicas' = _replicas /\ _offline_set' = _offline_set
                             /\ ~aborted'
                    /\ (At(_replicas, i) = NULL /\ OfflineEntries(i) # {})
                          => /\ <<i, At(_replicas', i)>> \in OfflineEntries(i)
                             /\ OfflineEntries(i)' = {}
      ]_vars

\* v[k] <= w[k] for every key k of either vector, absent keys read as 0.
PointwiseLe(v, w) ==
    \A k \in DOMAIN v \cup DOMAIN w :
        (IF k \in DOMAIN v THEN v[k] ELSE 0) <= (IF k \in DOMAIN w THEN w[k] ELSE 0)

\* C27: for all vectors v, w obtained from the empty vector by increment
\* (delta >= 0, 0 included) and merge, v <= w is true iff v[k] <= w[k] for
\* every key of either vector, and v < w is true iff v <= w and not v == w,
\* with the operator== of VersionVec.  v and w are the payloads of any two
\* GCounter replicas.
C27_VersionVecOrder ==
    kind = "GCounter" =>
        \A r, o \in Objects(net) :
            LET v == _payload[r]
                w == _payload[o]
            IN  /\ VecLe(v, w) <=> PointwiseLe(v, w)
                /\ VecLt(v, w) <=> (VecLe(v, w) /\ ~VersionVec_eq(v, w))

\* Two vectors differ only in keys mapped to 0.
SameButZeros(v, w) ==
    \A k \in DOMAIN v \cup DOMAIN w :
        localVersionForReplica(v, k) = localVersionForReplica(w, k)

\* C28: after increment(n, 0), n a key of the vector or not, the vector is
\* equal (operator==) to its value before the call and has the same hash; two
\* vectors that differ only in keys mapped to 0 are equal and hash alike.
C28_ZeroEntriesInvisible ==
    [][kind = "GCounter" =>
          /\ \A r \in Objects(net) :
                GIncrement(r, 0)
                    => /\ VersionVec_eq(_payload'[r], _payload[r])
                       /\ VersionVec_hash(_payload'[r]) = VersionVec_hash(_payload[r])
          /\ \A r, o \in Objects(net) :
                SameButZeros(_payload[r], _payload[o])
                    => /\ VersionVec_eq(_payload[r], _payload[o])
                       /\ VersionVec_hash(_payload[r]) = VersionVec_hash(_payload[o])
      ]_vars

\* C29: the operator<= of the GCounter payload of crdt.cpp is true whenever
\* self[k] <= other[k] holds over the union of the keys, and false otherwise;
\* so x <= x is true for every payload x, and x <= u(x) for every increment u.
C29_CppPayloadLe ==
    [][kind = "CppGCounter" =>
          /\ \A r, o \in Objects(net) :
                CppGCounter_le(_payload'[r], _payload'[o])
                    <=> PointwiseLe(_payload'[r], _payload'[o])
          /\ \A r \in Objects(net) :
                /\ CppGCounter_le(_payload'[r], _payload'[r])
                /\ lastOp' = "increment"
                      => CppGCounter_le(_payload[r], _payload'[r])
      ]_vars

\* The replicas of the network: bound to a slot or kept in the offline
\* collection.
NetworkReplicas == Bound \cup {e[2] : e \in _offline_set}

\* All replicas of the network hold equal payloads.
Converged ==
    /\ NetworkReplicas # {}
    /\ \A r, o \in NetworkReplicas : _payload[r] = _payload[o]

\* C30: once all replicas of a network hold equal payloads, a broadcast(i),
\* broadcastAll(), syncWithServer(i) or syncAllReplicasToServer() changes no
\* replica's payload or query() and leaves countPartitions() at 1.
C30_ConvergenceStable ==
    [][(Converged /\ Propagation(lastOp'))
          => /\ _payload' = _payload
             /\ \A r \in NetworkReplicas :
                   Query(kind, _payload'[r]) = Query(kind, _payload[r])
             /\ countPartitions' = 1
             /\ ~aborted'
      ]_vars

\* After the star network of GCounters has converged on a count of 3, a
\* syncAllReplicasToServer() has run and the three replicas still count 3.
C30_Witness ==
    /\ net = "Star" /\ kind = "GCounter"
    /\ lastOp = "syncAllReplicasToServer" /\ ~aborted
    /\ Len(_replicas) = 3 /\ AllSlotsOnline
    /\ Converged
    /\ \A r \in NetworkReplicas : GCounter_query(_payload[r]) = 3
    /\ countPartitions = 1

\* C31: in a network of LWWRegister replicas whose names hash to distinct
\* values, two payloads with the same timestamp (on any two replicas, bound,
\* offline or not yet added) have the same empty flag and the same value, and
\* a payload with the timestamp (0, 0) is the never-set empty payload.
C31_TimestampsIdentifyStates ==
    (kind = "LWWRegister" /\ DistinctHashes)
        => /\ \A r, o \in Objects(net) :
                 _payload[r].timestamp = _payload[o].timestamp
                     => /\ _payload[r].empty = _payload[o].empty
                        /\ _payload[r].value = _payload[o].value
           /\ \A r \in Objects(net) :
                 _payload[r].timestamp = <<0, 0>> => _payload[r] = LWW_init

\* Two replicas share one write after a merge while a third holds a write of
\* the same clock by another replica, with another value, and one replica has
\* a name that hashes to 0.
C31_Witness ==
    /\ kind = "LWWRegister" /\ DistinctHashes
    /\ \E r, o, q \in Objects(net) :
          /\ r # o /\ q # r /\ q # o
          /\ _payload[r].timestamp = _payload[o].timestamp
          /\ _payload[r].timestamp[1] >= 1
          /\ _payload[q].timestamp[1] = _payload[r].timestamp[1]
          /\ _payload[q].timestamp[2] = 0
          /\ _payload[q].timestamp # _payload[r].timestamp
          /\ LWW_query(_payload[q]) # LWW_query(_payload[r])

\* Replica r has never called assign or clear and holds the empty node set.
NeverAssigned(r) == ~written[r].done /\ _payload[r] = {}

\* C32: MVRegister: a broadcast from a replica that has never called assign or
\* clear (empty node set) leaves the payload and query() of every receiver with
\* a non-empty payload unchanged; a never-assigned replica that receives a
\* non-empty payload adopts it; and after a broadcastAll() in a fully bound
\* network where only some replicas have assigned, every replica's query()
\* contains the values the other replicas assigned.  On the code the nested
\* loops of merge keep nothing when either node set is empty (C12).
C32_NeverAssignedMergeHarmless ==
    [][kind = "MVRegister" =>
         /\ \A i \in Slots :
               (lastOp' = "broadcast" /\ At(_replicas, i) # NULL /\ Broadcast(i))
                  => LET s == At(_replicas, i)
                     IN  /\ NeverAssigned(s)
                               => \A r \in Bound :
                                     _payload[r] # {}
                                        => /\ _payload'[r] = _payload[r]
                                           /\ MV_query(_payload'[r]) = MV_query(_payload[r])
                         /\ _payload[s] # {}
                               => \A r \in Bound \ {s} :
                                     NeverAssigned(r) => _payload'[r] = _payload[s]
         /\ (/\ lastOp' = "broadcastAll" /\ FullNetworkOnline
             /\ \E o \in Bound : NeverAssigned(o))
                => \A r \in Bound : \A o \in Bound \ {r} :
                      written[o].done => written[o].value \subseteq MV_query(_payload'[r])
      ]_vars

\* C33: StarNetwork: in every state reached by setServerReplica, add,
\* disconnect and reconnect (with syncs and local updates in between), no slot
\* is bound in the replica vector while the offline collection holds an entry
\* for it, the offline collection holds at most one entry per slot, and the
\* assertion `_replicas[i] == nullptr` of reconnect(i) has not failed.
C33_SlotBookkeeping ==
    net = "Star" =>
        /\ \A i \in Slots : At(_replicas, i) # NULL => OfflineEntries(i) = {}
        /\ \A i \in Slots : Cardinality(OfflineEntries(i)) <= 1
        /\ ~(lastOp = "reconnect" /\ aborted)

\* C34: GCounter (crdt.h): for every payload whose entries sum to less than
\* the range of uint64_t, sums at or above the range of unsigned int included,
\* query() is the arithmetic sum of the entries, and across a step between two
\* such payloads of a replica query() does not decrease.
C34_QueryIsExactSum ==
    [][kind = "GCounter" =>
         \A r \in Objects(net) :
            LET before == SumEntries(_payload[r], DOMAIN _payload[r])
                after == SumEntries(_payload'[r], DOMAIN _payload'[r])
            IN  /\ after < U64Range => GCounter_query(_payload'[r]) = after
                /\ (before < U64Range /\ after < U64Range /\ before <= after)
                      => GCounter_query(_payload[r]) <= GCounter_query(_payload'[r])
      ]_vars
====
